---- MODULE Spec2Model ----
(***************************************************************************)
(* Model of the quiz agent API (src/main.py): the POST /quiz/generate      *)
(* handler, its helper functions and the three services it calls (Mem0,    *)
(* Chroma, OpenRouter).  A request runs the handler's statements in order; *)
(* every blocking call to a service is one step, so that the steps of      *)
(* concurrent requests interleave at exactly the points where the hosting  *)
(* runtime can switch between them.                                        *)
(***************************************************************************)
EXTENDS Integers, Sequences, FiniteSets, TLC

\* ------------------------------------------------------------------ bounds
NumRequests == 2
MaxTime == 2

Requests == 1..NumRequests

\* ------------------------------------------------------- python primitives
\* Python's None (an absent header, a missing dict key, a null JSON value).
None == "<None>"

\* dict.get(key, default)
Get(d, key, default) == IF key \in DOMAIN d THEN d[key] ELSE default

\* sep.join(seq)
RECURSIVE Join(_, _)
Join(seq, sep) ==
  IF seq = <<>> THEN ""
  ELSE IF Len(seq) = 1 THEN seq[1]
  ELSE seq[1] \o sep \o Join(Tail(seq), sep)

\* [x for x in seq if x]
RECURSIVE Truthy(_)
Truthy(seq) ==
  IF seq = <<>> THEN <<>>
  ELSE IF Head(seq) \in {"", None} THEN Truthy(Tail(seq))
  ELSE <<Head(seq)>> \o Truthy(Tail(seq))

\* json.dumps(value): the JSON text of a value, kept symbolic.
JsonDumps(value) == [json_text_of |-> value]

\* raise HTTPException(status_code, detail); the detail is the sequence of
\* the fragments of the f-string that builds it.
HTTPException(status_code, detail) ==
  [status_code |-> status_code, detail |-> detail]

\* Any other exception (AttributeError, requests.ConnectionError, ...).
PyError(name) == [error |-> name]

\* What the framework answers when the handler raises exc: an HTTPException
\* as it is, anything else as 500 Internal Server Error.
ErrorResponse(exc) ==
  IF "status_code" \in DOMAIN exc THEN exc
  ELSE [status_code |-> 500, detail |-> <<"Internal Server Error">>]

\* ------------------------------------------------------------------ inputs
CHROMA_COLLECTION == "quizzes"

Secrets == {"", "s3cret"}
Headers == {None, "s3cret", "S3CRET"}
ApiKeys == {"", "key"}
Hosts == {"", "chroma.local"}
CandidateIds == {"c1", "c1_1"}

QuizGenerateRequest(candidate_id) ==
  [candidate_id |-> candidate_id, role |-> "Backend Engineer",
   skills |-> <<"Go", "SQL">>, difficulty |-> "medium", num_questions |-> 5]

Payloads == {QuizGenerateRequest(c) : c \in CandidateIds}

\* ---------------------------------------------------------------- state
VARIABLES
  AGENT_SECRET,        \* configuration, read once from the environment
  MEM0_API_KEY,
  OPENROUTER_API_KEY,
  CHROMA_HOST,
  pc,                  \* per request: the handler's position
  payload,             \* per request: the QuizGenerateRequest body
  x_agent_secret,      \* per request: the X-Agent-Secret header
  memories,            \* per request: local of generate_quiz
  collection,          \* per request: local of generate_quiz
  similar,             \* per request: local of generate_quiz
  quiz,                \* per request: local of generate_quiz
  response,            \* per request: what the caller receives
  steps,               \* per request: the steps run so far, with their outcome
  mem0,                \* Mem0: the records appended by POST /v1/memories/
  collections,         \* Chroma: the collections, as [name, id]
  documents,           \* Chroma: the documents, as [collection, id, document, metadata]
  upserted,            \* Chroma: every upsert received, as [by, time, id, ...]
  completions          \* OpenRouter: the calls received, as [by, prompt, answer]

config == <<AGENT_SECRET, MEM0_API_KEY, OPENROUTER_API_KEY, CHROMA_HOST>>
locals == <<payload, x_agent_secret, memories, collection, similar, quiz>>
services == <<mem0, collections, documents, upserted, completions>>
vars == <<config, pc, locals, response, steps, services>>

\* A function's outcome: it returns a value or raises.
Return(value) == [raised |-> FALSE, value |-> value]
Raise(exc) == [raised |-> TRUE, exc |-> exc]

\* A JSON value, tagged with its Python type after parsing.
Dict(d) == [type |-> "dict", value |-> d]
List(l) == [type |-> "list", value |-> l]
Null == [type |-> "null", value |-> None]

\* `a or b`
Or(a, b) == IF a \in {None, ""} THEN b ELSE a

\* What the dependency itself did, whatever the caller makes of it.
Outcome(status_code) == IF status_code \in 200..299 THEN "ok" ELSE "error"

\* What became of a call, as the dependency saw it: "none" (no call was
\* made), "ok", "error" (a non-success answer), "malformed" (a success answer
\* with an unusable body) or "unreachable" (no answer: connection, timeout).
Upstream(q) ==
  IF q.raised THEN "unreachable" ELSE Outcome(q.value.status_code)

\* One entry of a request's step log: the step, what became of its call, the
\* body the dependency answered with, and how the step ended for the
\* handler ("ok": it returned, "error": it raised).
Step(name, upstream, body, result) ==
  [step |-> name, upstream |-> upstream, body |-> body, result |-> result]

\* ---------------------------------------------------------- require_secret
require_secret_no_open_mode(header) ==
  IF header # AGENT_SECRET
  THEN Raise(HTTPException(401, <<"Unauthorized">>))
  ELSE Return(None)

require_secret(header) ==
  IF AGENT_SECRET = "" THEN Return(None)
  ELSE IF header # AGENT_SECRET
       THEN Raise(HTTPException(401, <<"Unauthorized">>))
       ELSE Return(None)

\* ------------------------------------------------------------ header makers
mem0_headers ==
  IF MEM0_API_KEY = ""
  THEN Raise(HTTPException(500, <<"MEM0_API_KEY not set">>))
  ELSE Return([Authorization |-> "Token " \o MEM0_API_KEY])

openrouter_headers ==
  IF OPENROUTER_API_KEY = ""
  THEN Raise(HTTPException(500, <<"OPENROUTER_API_KEY not set">>))
  ELSE Return([Authorization |-> "Bearer " \o OPENROUTER_API_KEY])

\* ------------------------------------------------------ mem0_search_candidate
\* What the POST to /v2/memories/search may do: answer or fail to connect.
Mem0SearchOutcomes ==
  << Return([status_code |-> 200, text |-> "",
             json |-> List(<< [memory |-> "prefers practical coding tasks"],
                              [memory |-> "", text |-> "likes SQL"],
                              [id |-> "m3"] >>)]),
     Return([status_code |-> 200, text |-> "", json |-> Dict([results |-> <<>>])]),
     Return([status_code |-> 500, text |-> "mem0 unavailable",
             json |-> Dict([detail |-> "unavailable"])]),
     Raise(PyError("ConnectionError")) >>

\* the loop of lines 88-93
RECURSIVE NormalizeMemories(_)
NormalizeMemories(items) ==
  IF items = <<>> THEN <<>>
  ELSE LET m == Or(Or(Get(Head(items), "memory", None),
                      Get(Head(items), "text", None)), "")
       IN  (IF m # "" THEN <<m>> ELSE <<>>) \o NormalizeMemories(Tail(items))

\* lines 84-94, given the response r of the POST
mem0_search_candidate(r) ==
  IF r.status_code >= 400
  THEN Raise(HTTPException(502, <<"Mem0 search failed: ", r.text>>))
  ELSE Return(IF r.json.type = "list" THEN NormalizeMemories(r.json.value) ELSE <<>>)

\* ----------------------------------------------------------- mem0_add_summary
Mem0AddResponses ==
  { [status_code |-> 200, text |-> ""],
    [status_code |-> 400, text |-> "mem0 rejected the record"] }

\* lines 100-107: the body of the POST
mem0_add_payload(candidate_id, summary) ==
  [user_id |-> candidate_id,
   messages |-> << [role |-> "user",
                    content |-> "Quiz generated for recruitment assessment."],
                   [role |-> "assistant", content |-> JsonDumps(summary)] >>,
   metadata |-> [source |-> "quiz-agent-poc", kind |-> "quiz_summary"]]

\* The same without the check of the status.
mem0_add_summary_unchecked(r) == Return(None)

\* lines 109-110, given the response r of the POST
mem0_add_summary(r) ==
  IF r.status_code >= 400
  THEN Raise(HTTPException(502, <<"Mem0 add failed: ", r.text>>))
  ELSE Return(None)

\* ------------------------------------------------------ get_chroma_collection
\* The identifier the store gives the next collection it creates.
NewId(colls) == Cardinality(colls) + 1

\* A create that does not look for the name first.
create_collection(colls, name) ==
  colls \cup {[name |-> name, id |-> NewId(colls)]}

\* client.get_or_create_collection(name), one request to the store: the
\* collections after it.
get_or_create_collection(colls, name) ==
  IF \E c \in colls : c.name = name THEN colls
  ELSE colls \cup {[name |-> name, id |-> NewId(colls)]}

\* The collection the call hands back.
Resolved(colls, name) == (CHOOSE c \in colls : c.name = name).id

\* ----------------------------------------------------- chroma_similar_quizzes
\* What collection.query may do: return a body or raise.
QueryOutcomes ==
  << Return(Dict([documents |-> List(<< List(<<"quiz A", "", "quiz B", None>>) >>)])),
     Return(Dict([documents |-> List(<< List(<<>>) >>)])),
     Return(Dict([ids |-> List(<< List(<<>>) >>)])),
     Return(Dict([documents |-> List(<< Null >>)])),
     Return(Dict([documents |-> List(<<>>)])),
     Return(Dict([documents |-> Null])),
     Return(List(<<>>)),
     Raise(PyError("ChromaError")),
     Raise(PyError("Timeout")) >>

\* lines 119-120 on the body res
SimilarDocs(res) ==
  IF res.type # "dict" THEN Raise(PyError("AttributeError"))
  ELSE LET field == Get(res.value, "documents", List(<< List(<<>>) >>))
       IN  IF field.type # "list" THEN Raise(PyError("TypeError"))
           ELSE IF field.value = <<>> THEN Raise(PyError("IndexError"))
           ELSE LET docs == field.value[1]
                IN  IF docs.type = "null" THEN Return(<<>>)
                    ELSE Return(Truthy(docs.value))

\* The same without the try/except.
chroma_similar_quizzes_uncaught(q) ==
  IF q.raised THEN q ELSE SimilarDocs(q.value)

\* lines 117-122, given the outcome q of collection.query
chroma_similar_quizzes(q) ==
  LET body == IF q.raised THEN q ELSE SimilarDocs(q.value)
  IN  IF body.raised THEN Return(<<>>) ELSE body

\* ---------------------------------------------------------- chroma_store_quiz
\* An identifier that leaves the candidate out.
quiz_id_without_candidate(candidate_id, t) == "quiz_" \o ToString(t)

\* line 127, t being int(time.time()*1000)
quiz_id(candidate_id, t) == "quiz_" \o candidate_id \o "_" \o ToString(t)

\* lines 131-137
quiz_metadata(req, q) ==
  [candidate_id |-> req.candidate_id,
   role |-> Get(q.value, "role", None),
   difficulty |-> Get(q.value, "difficulty", None),
   quiz_title |-> Get(q.value, "quiz_title", None),
   source |-> "quiz-agent-poc"]

\* A document that keeps the questions only.
quiz_document_questions_only(q) ==
  JsonDumps(Dict([questions |-> Get(q.value, "questions", <<>>)]))

\* line 126
quiz_document(q) == JsonDumps(q)

\* collection.upsert(ids, documents, metadatas): the documents after it.
upsert(docs, coll, id, doc, metadata) ==
  {d \in docs : ~(d.collection = coll /\ d.id = id)}
    \cup {[collection |-> coll, id |-> id, document |-> doc, metadata |-> metadata]}

\* --------------------------------------------------- openrouter_generate_quiz
FullQuiz ==
  "{\"quiz_title\": \"Go and SQL\", \"role\": \"Staff Engineer\", \"difficulty\": \"hard\", \"questions\": [q1, q2]}"
BareQuiz == "{\"quiz_title\": \"Go and SQL\", \"questions\": [q1, q2, q3, q4, q5]}"
JsonArray == "[1, 2]"
Prose == "Sure! Here is your quiz: ..."

\* The message contents the model may answer with (None: a null content).
Contents == {FullQuiz, BareQuiz, JsonArray, Prose, None}

\* json.loads(content) on the contents above
json_loads(content) ==
  CASE content = FullQuiz ->
         Return(Dict([quiz_title |-> "Go and SQL", role |-> "Staff Engineer",
                      difficulty |-> "hard", questions |-> <<"q1", "q2">>]))
    [] content = BareQuiz ->
         Return(Dict([quiz_title |-> "Go and SQL",
                      questions |-> <<"q1", "q2", "q3", "q4", "q5">>]))
    [] content = JsonArray -> Return(List(<<1, 2>>))
    [] content = None -> Raise(PyError("TypeError"))
    [] OTHER -> Raise(PyError("JSONDecodeError"))

\* content[:500]
Slice500(content) ==
  IF content = None THEN Raise(PyError("TypeError"))
  ELSE Return(IF Len(content) <= 500 THEN content ELSE SubSeq(content, 1, 500))

\* What the POST to /chat/completions may do: answer or fail to connect.
CompletionOutcomes ==
  { Return([status_code |-> 200, text |-> "",
            choices |-> << [message |-> [content |-> c]] >>]) : c \in Contents }
  \cup
  { Return([status_code |-> 200, text |-> "", choices |-> <<>>]),
    Return([status_code |-> 400, text |-> "bad request", choices |-> <<>>]),
    Return([status_code |-> 500, text |-> "upstream exploded", choices |-> <<>>]),
    Raise(PyError("ConnectionError")) }

\* lines 144-177: the parts of the prompt that vary
Prompt(req, mems, sims) ==
  [role |-> req.role,
   skills |-> Join(req.skills, ", "),
   difficulty |-> req.difficulty,
   num_questions |-> req.num_questions,
   memory |-> IF mems # <<>> THEN Join(mems, " | ") ELSE "none",
   similar_quizzes |-> IF sims # <<>> THEN Join(sims, " | ") ELSE "none"]

\* lines 189-194 on the response r
ParseCompletion(r) ==
  IF r.choices = <<>> THEN Raise(PyError("IndexError"))
  ELSE LET content == r.choices[1].message.content
           parsed == json_loads(content)
           prefix == Slice500(content)
       IN  IF ~parsed.raised THEN parsed
           ELSE IF prefix.raised THEN prefix
           ELSE Raise(HTTPException(502,
                  <<"Model did not return valid JSON: ", prefix.value>>))

\* The same with only the 5xx answers taken as failures.
openrouter_generate_quiz_5xx(r) ==
  IF r.status_code >= 500
  THEN Raise(HTTPException(502, <<"OpenRouter failed: ", r.text>>))
  ELSE ParseCompletion(r)

\* lines 187-194, given the response r of the POST
openrouter_generate_quiz(r) ==
  IF r.status_code >= 400
  THEN Raise(HTTPException(502, <<"OpenRouter failed: ", r.text>>))
  ELSE ParseCompletion(r)

\* ------------------------------------------------------------- generate_quiz
\* lines 210-217
Summary(req, q) ==
  IF q.type # "dict" THEN Raise(PyError("AttributeError"))
  ELSE Return([type |-> "quiz_generated",
               quiz_title |-> Get(q.value, "quiz_title", None),
               role |-> Get(q.value, "role", req.role),
               difficulty |-> Get(q.value, "difficulty", req.difficulty),
               num_questions |-> Len(Get(q.value, "questions", <<>>)),
               skills_hint |-> SubSeq(req.skills, 1,
                                 IF Len(req.skills) < 10 THEN Len(req.skills) ELSE 10)])

\* ------------------------------------------------------------------- steps
Mem0AddOutcomes ==
  {Return(r) : r \in Mem0AddResponses} \cup {Raise(PyError("ConnectionError"))}

\* The process has read its configuration and every request has arrived with
\* its body and header.  Candidate identifiers are opaque, so the first
\* request is taken to be for "c1" and the others for either candidate.  The
\* store starts with one collection of another name and none of the
\* configured name.
Init ==
  /\ AGENT_SECRET \in Secrets
  /\ MEM0_API_KEY \in ApiKeys
  /\ OPENROUTER_API_KEY \in ApiKeys
  /\ CHROMA_HOST \in Hosts
  /\ pc = [r \in Requests |-> "Start"]
  /\ payload \in {f \in [Requests -> Payloads] :
                    f[1] = QuizGenerateRequest("c1")}
  /\ x_agent_secret \in [Requests -> Headers]
  /\ memories = [r \in Requests |-> <<>>]
  /\ collection = [r \in Requests |-> 0]
  /\ similar = [r \in Requests |-> <<>>]
  /\ quiz = [r \in Requests |-> Null]
  /\ response = [r \in Requests |-> [status_code |-> 0]]
  /\ steps = [r \in Requests |-> <<>>]
  /\ mem0 = {}
  /\ collections = {[name |-> "archive", id |-> 1]}
  /\ documents = {}
  /\ upserted = {}
  /\ completions = {}

\* The step of request r returned: the handler moves on to `next`.
Proceed(r, next, entry) ==
  /\ pc' = [pc EXCEPT ![r] = next]
  /\ steps' = [steps EXCEPT ![r] = Append(@, entry)]
  /\ UNCHANGED response

\* The step of request r raised exc: the request ends with the error.
Abort(r, exc, entry) ==
  /\ pc' = [pc EXCEPT ![r] = "Done"]
  /\ steps' = [steps EXCEPT ![r] = Append(@, entry)]
  /\ response' = [response EXCEPT ![r] = ErrorResponse(exc)]

\* line 199
RequireSecret(r) ==
  /\ pc[r] = "Start"
  /\ LET out == require_secret(x_agent_secret[r])
     IN  IF out.raised
         THEN Abort(r, out.exc, Step("require_secret", "none", "", "error"))
         ELSE Proceed(r, "AuthChecked", Step("require_secret", "none", "", "ok"))
  /\ UNCHANGED <<config, locals, services>>

\* line 201
Mem0Search(r) ==
  /\ pc[r] = "AuthChecked"
  /\ IF mem0_headers.raised
     THEN /\ Abort(r, mem0_headers.exc, Step("mem0_search", "none", "", "error"))
          /\ UNCHANGED memories
     ELSE \E i \in 1..Len(Mem0SearchOutcomes) :
            LET q == Mem0SearchOutcomes[i]
                out == IF q.raised THEN q ELSE mem0_search_candidate(q.value)
                body == IF q.raised THEN "" ELSE q.value.text
            IN  IF out.raised
                THEN /\ Abort(r, out.exc, Step("mem0_search", Upstream(q), body, "error"))
                     /\ UNCHANGED memories
                ELSE /\ Proceed(r, "MemoriesFetched",
                                Step("mem0_search", Upstream(q), body, "ok"))
                     /\ memories' = [memories EXCEPT ![r] = out.value]
  /\ UNCHANGED <<config, payload, x_agent_secret, collection, similar, quiz, services>>

\* line 202
GetChromaCollection(r) ==
  /\ pc[r] = "MemoriesFetched"
  /\ IF CHROMA_HOST = ""
     THEN /\ Abort(r, HTTPException(500, <<"CHROMA_HOST not set">>),
                   Step("get_collection", "none", "", "error"))
          /\ UNCHANGED <<collection, collections>>
     ELSE \E answered \in BOOLEAN :
            IF answered
            THEN /\ collections' = get_or_create_collection(collections, CHROMA_COLLECTION)
                 /\ collection' = [collection EXCEPT
                                     ![r] = Resolved(collections', CHROMA_COLLECTION)]
                 /\ Proceed(r, "CollectionResolved",
                            Step("get_collection", "ok", "", "ok"))
            ELSE /\ Abort(r, PyError("ChromaError"),
                          Step("get_collection", "error", "", "error"))
                 /\ UNCHANGED <<collection, collections>>
  /\ UNCHANGED <<config, payload, x_agent_secret, memories, similar, quiz,
                 mem0, documents, upserted, completions>>

\* lines 204-205
ChromaSimilar(r) ==
  /\ pc[r] = "CollectionResolved"
  /\ \E i \in 1..Len(QueryOutcomes) :
       LET q == QueryOutcomes[i]
           out == chroma_similar_quizzes(q)
           upstream == IF q.raised
                       THEN (IF q.exc = PyError("Timeout") THEN "unreachable" ELSE "error")
                       ELSE IF SimilarDocs(q.value).raised THEN "malformed" ELSE "ok"
       IN  IF out.raised
           THEN /\ Abort(r, out.exc, Step("query", upstream, "", "error"))
                /\ UNCHANGED similar
           ELSE /\ Proceed(r, "SimilarFetched", Step("query", upstream, "", "ok"))
                /\ similar' = [similar EXCEPT ![r] = out.value]
  /\ UNCHANGED <<config, payload, x_agent_secret, memories, collection, quiz, services>>

\* line 207
OpenRouterGenerate(r) ==
  /\ pc[r] = "SimilarFetched"
  /\ IF openrouter_headers.raised
     THEN /\ Abort(r, openrouter_headers.exc, Step("generate", "none", "", "error"))
          /\ UNCHANGED <<quiz, completions>>
     ELSE \E q \in CompletionOutcomes :
            LET out == IF q.raised THEN q ELSE openrouter_generate_quiz(q.value)
                body == IF q.raised THEN "" ELSE q.value.text
            IN  /\ completions' =
                     IF q.raised THEN completions
                     ELSE completions \cup
                            {[by |-> r, answer |-> q.value,
                              prompt |-> Prompt(payload[r], memories[r], similar[r])]}
                /\ IF out.raised
                   THEN /\ Abort(r, out.exc, Step("generate", Upstream(q), body, "error"))
                        /\ UNCHANGED quiz
                   ELSE /\ Proceed(r, "QuizGenerated",
                                   Step("generate", Upstream(q), body, "ok"))
                        /\ quiz' = [quiz EXCEPT ![r] = out.value]
  /\ UNCHANGED <<config, payload, x_agent_secret, memories, collection, similar,
                 mem0, collections, documents, upserted>>

\* lines 210-218
Mem0AddSummary(r) ==
  /\ pc[r] = "QuizGenerated"
  /\ LET summary == Summary(payload[r], quiz[r])
     IN  IF summary.raised
         THEN /\ Abort(r, summary.exc, Step("add_summary", "none", "", "error"))
              /\ UNCHANGED mem0
         ELSE IF mem0_headers.raised
         THEN /\ Abort(r, mem0_headers.exc, Step("add_summary", "none", "", "error"))
              /\ UNCHANGED mem0
         ELSE \E q \in Mem0AddOutcomes :
                LET out == IF q.raised THEN q ELSE mem0_add_summary(q.value)
                    body == IF q.raised THEN "" ELSE q.value.text
                IN  /\ mem0' = IF Upstream(q) = "ok"
                               THEN mem0 \cup {[by |-> r,
                                      record |-> mem0_add_payload(payload[r].candidate_id,
                                                                  summary.value)]}
                               ELSE mem0
                    /\ IF out.raised
                       THEN Abort(r, out.exc, Step("add_summary", Upstream(q), body, "error"))
                       ELSE Proceed(r, "SummaryStored",
                                    Step("add_summary", Upstream(q), body, "ok"))
  /\ UNCHANGED <<config, locals, collections, documents, upserted, completions>>

\* line 221; the identifier is built from a reading of the wall clock, which
\* may show any millisecond (it is not monotonic).
ChromaStoreQuiz(r) ==
  /\ pc[r] = "SummaryStored"
  /\ \E t \in 1..MaxTime, answered \in BOOLEAN :
       LET id == quiz_id(payload[r].candidate_id, t)
           doc == quiz_document(quiz[r])
           metadata == quiz_metadata(payload[r], quiz[r])
       IN  IF answered
              THEN /\ documents' = upsert(documents, collection[r], id, doc, metadata)
                   /\ upserted' = upserted \cup
                        {[by |-> r, time |-> t, collection |-> collection[r], id |-> id,
                          document |-> doc, metadata |-> metadata]}
                   /\ Proceed(r, "QuizPersisted", Step("store_quiz", "ok", "", "ok"))
              ELSE /\ Abort(r, PyError("ChromaError"),
                            Step("store_quiz", "error", "", "error"))
                   /\ UNCHANGED <<documents, upserted>>
  /\ UNCHANGED <<config, locals, mem0, collections, completions>>

\* line 223
Respond(r) ==
  /\ pc[r] = "QuizPersisted"
  /\ pc' = [pc EXCEPT ![r] = "Done"]
  /\ steps' = [steps EXCEPT ![r] = Append(@, Step("respond", "none", "", "ok"))]
  /\ response' = [response EXCEPT ![r] = [status_code |-> 200, body |-> quiz[r]]]
  /\ UNCHANGED <<config, locals, services>>

Next ==
  \E r \in Requests :
    \/ RequireSecret(r)
    \/ Mem0Search(r)
    \/ GetChromaCollection(r)
    \/ ChromaSimilar(r)
    \/ OpenRouterGenerate(r)
    \/ Mem0AddSummary(r)
    \/ ChromaStoreQuiz(r)
    \/ Respond(r)

Spec == Init /\ [][Next]_vars

\* ------------------------------------------------------------- vocabulary
StepOrder ==
  <<"require_secret", "mem0_search", "get_collection", "query", "generate",
    "add_summary", "store_quiz", "respond">>

Range(seq) == {seq[i] : i \in DOMAIN seq}

\* The entries of request r's log for the step `name`.
Entries(r, name) == {i \in DOMAIN steps[r] : steps[r][i].step = name}

Ran(r, name) == Entries(r, name) # {}

Last(r) == steps[r][Len(steps[r])]

Succeeded(r) == pc[r] = "Done" /\ response[r].status_code = 200

Failed(r) == pc[r] = "Done" /\ response[r].status_code >= 400

\* The summaries Mem0 holds for request r, and the upserts and completion
\* calls the other services received from it.
SummariesOf(r) == {m \in mem0 : m.by = r}
UpsertsOf(r) == {u \in upserted : u.by = r}
CompletionsOf(r) == {c \in completions : c.by = r}

\* The summary inside a Mem0 record: the assistant message, parsed back.
SummaryIn(m) == m.record.messages[2].content.json_text_of

\* ------------------------------------------------------------------ claims

\* C1: once a step of a request fails (any step but the similarity query),
\* no later step of that request runs and the request ends with the error;
\* when the completion service answers with a non-success status the request
\* ends with a 502 whose detail contains the upstream body, and no summary
\* append and no upsert happens for it; a request rejected by the secret
\* gate makes no upstream call at all.
C1_FailureAbortsRemainingSteps ==
  \A r \in Requests :
    /\ \A i \in DOMAIN steps[r] :
         (\/ steps[r][i].result = "error"
          \/ (steps[r][i].step # "query" /\ steps[r][i].upstream \notin {"none", "ok"}))
         => /\ i = Len(steps[r])
            /\ Failed(r)
    /\ \A i \in Entries(r, "generate") :
         steps[r][i].upstream = "error"
         => /\ response[r].status_code = 502
            /\ steps[r][i].body \in Range(response[r].detail)
            /\ ~Ran(r, "add_summary") /\ ~Ran(r, "store_quiz")
            /\ SummariesOf(r) = {} /\ UpsertsOf(r) = {}
    /\ (pc[r] = "Done" /\ response[r].status_code = 401)
         => /\ Len(steps[r]) = 1
            /\ SummariesOf(r) = {} /\ UpsertsOf(r) = {} /\ CompletionsOf(r) = {}

C1_Witness ==
  \E r \in Requests :
    /\ \E i \in Entries(r, "generate") : steps[r][i].upstream = "error"
    /\ response[r].status_code = 502
    /\ Ran(r, "mem0_search")

C3_SecretGate ==
  \A r \in Requests :
    steps[r] # <<>>
    => /\ steps[r][1].step = "require_secret"
       /\ (steps[r][1].result = "error")
            <=> (AGENT_SECRET # "" /\ x_agent_secret[r] # AGENT_SECRET)
       /\ (steps[r][1].result = "error")
            => (response[r] = HTTPException(401, <<"Unauthorized">>))
       /\ (AGENT_SECRET = "") => steps[r][1].result = "ok"

C3_Witness ==
  \E r1, r2 \in Requests :
    /\ AGENT_SECRET # ""
    /\ x_agent_secret[r1] = None /\ response[r1].status_code = 401
    /\ x_agent_secret[r2] = AGENT_SECRET /\ Ran(r2, "mem0_search")

\* C4: the similarity query never raises: when the store's query errors,
\* times out or answers a malformed body, the query step returns the empty
\* sequence and the request goes on to the generation, whose prompt carries
\* "none" for the similar quizzes.
C4_SimilarityQuerySoftFails ==
  \A r \in Requests :
    \A i \in Entries(r, "query") :
      /\ steps[r][i].result = "ok"
      /\ (i = Len(steps[r])) => pc[r] = "SimilarFetched"
      /\ steps[r][i].upstream \in {"error", "unreachable", "malformed"}
         => /\ similar[r] = <<>>
            /\ \A c \in CompletionsOf(r) : c.prompt.similar_quizzes = "none"

C4_Witness ==
  \E r1, r2 \in Requests :
    /\ \E i \in Entries(r1, "query") : steps[r1][i].upstream = "unreachable"
    /\ \E i \in Entries(r2, "query") : steps[r2][i].upstream = "malformed"
    /\ CompletionsOf(r1) # {} /\ CompletionsOf(r2) # {}

\* C5: for the memory search, the summary append, the completion call and
\* the upsert, a non-success answer of the dependency ends the request with
\* a 502; in particular a failed upsert ends it with a 502.
C5_UpstreamFailureIs502 ==
  \A r \in Requests :
    \A i \in DOMAIN steps[r] :
      (/\ steps[r][i].step \in {"mem0_search", "add_summary", "generate", "store_quiz"}
       /\ steps[r][i].upstream = "error")
      => (pc[r] = "Done" /\ response[r].status_code = 502)

\* The message contents that are valid JSON.
ValidJson == {FullQuiz, BareQuiz, JsonArray}

\* C6: the generation fails with the 502 "invalid model output" error
\* whenever the message content is not valid JSON, and returns the parsed
\* structure whenever it is valid JSON, whatever its shape.
C6_InvalidModelOutput ==
  \A c \in completions :
    (c.answer.status_code = 200 /\ c.answer.choices # <<>>)
    => LET content == c.answer.choices[1].message.content
       IN  IF content \in ValidJson
           THEN /\ \A i \in Entries(c.by, "generate") : steps[c.by][i].result = "ok"
                /\ quiz[c.by] = json_loads(content).value
           ELSE /\ Failed(c.by)
                /\ Last(c.by).step = "generate"
                /\ response[c.by].status_code = 502
                /\ response[c.by].detail[1] = "Model did not return valid JSON: "

\* C7: however the requests interleave, at most one collection of the
\* configured name exists, and every request that resolved the collection
\* holds the identifier of that one collection.
C7_OneCollection ==
  /\ Cardinality({c \in collections : c.name = CHROMA_COLLECTION}) <= 1
  /\ \A r \in Requests :
       Ran(r, "get_collection") /\ steps[r][3].result = "ok"
       => \E c \in collections : c.name = CHROMA_COLLECTION /\ c.id = collection[r]
  /\ \A r1, r2 \in Requests :
       (collection[r1] # 0 /\ collection[r2] # 0) => collection[r1] = collection[r2]

C7_Witness ==
  /\ \A r \in Requests : Ran(r, "get_collection") /\ collection[r] # 0
  /\ Cardinality({c \in collections : c.name = CHROMA_COLLECTION}) = 1

\* C8 as stated: no two requests ever upsert under the same document
\* identifier, and no request's stored quiz is overwritten by another's.
C8_DocumentIdsUnique ==
  \A u1, u2 \in upserted : u1.by # u2.by => u1.id # u2.id

\* C8 amended: two requests upsert under the same identifier exactly when
\* they are for the same candidate and read the same millisecond; only then
\* does a later upsert overwrite an earlier one, and every other upsert stays
\* stored as it was written.
C8_IdsUniquePerCandidateAndMillisecond ==
  /\ \A u1, u2 \in upserted :
       (u1.id = u2.id)
         <=> (u1.metadata.candidate_id = u2.metadata.candidate_id /\ u1.time = u2.time)
  /\ \A u \in upserted :
       \/ \E d \in documents :
            /\ d.collection = u.collection /\ d.id = u.id
            /\ d.document = u.document /\ d.metadata = u.metadata
       \/ \E v \in upserted :
            /\ v.by # u.by
            /\ v.metadata.candidate_id = u.metadata.candidate_id /\ v.time = u.time

C8_Witness ==
  \E u1, u2 \in upserted :
    /\ u1.by # u2.by
    /\ u1.metadata.candidate_id = u2.metadata.candidate_id
    /\ u1.time # u2.time
    /\ Cardinality(documents) = 2

\* The role and the difficulty the claim expects to be recorded.
ExpectedRole(r) == Get(quiz[r].value, "role", payload[r].role)
ExpectedDifficulty(r) == Get(quiz[r].value, "difficulty", payload[r].difficulty)

\* C9: on a successful request the summary and the document's metadata
\* record the candidate identifier, the quiz title of the model output, and
\* the quiz's own role and difficulty when it has them, the request's
\* otherwise.
C9_SummaryAndMetadata ==
  \A r \in Requests :
    Succeeded(r)
    => /\ \A m \in SummariesOf(r) :
            /\ m.record.user_id = payload[r].candidate_id
            /\ SummaryIn(m).quiz_title = Get(quiz[r].value, "quiz_title", None)
            /\ SummaryIn(m).role = ExpectedRole(r)
            /\ SummaryIn(m).difficulty = ExpectedDifficulty(r)
       /\ \A u \in UpsertsOf(r) :
            /\ u.metadata.candidate_id = payload[r].candidate_id
            /\ u.metadata.quiz_title = Get(quiz[r].value, "quiz_title", None)
            /\ u.metadata.role = ExpectedRole(r)
            /\ u.metadata.difficulty = ExpectedDifficulty(r)

\* C10: the steps of a request run in the fixed order, each at most once and
\* each only after the one before it returned; nothing is rolled back, so a
\* request whose upsert fails leaves its summary in Mem0 although it ends
\* with an error and stores no document.
C10_FixedOrderNoRollback ==
  \A r \in Requests :
    /\ Len(steps[r]) <= Len(StepOrder)
    /\ \A i \in DOMAIN steps[r] :
         /\ steps[r][i].step = StepOrder[i]
         /\ i < Len(steps[r]) => steps[r][i].result = "ok"
    /\ (pc[r] = "Done") <=> (steps[r] # <<>> /\ (Last(r).result = "error"
                                                \/ Last(r).step = "respond"))
    /\ (steps[r] # <<>> /\ Last(r).step = "store_quiz" /\ Last(r).result = "error")
       => /\ Failed(r)
          /\ Cardinality(SummariesOf(r)) = 1
          /\ UpsertsOf(r) = {}
          /\ \A m \in SummariesOf(r) : m.record.user_id = payload[r].candidate_id

C10_Witness ==
  \E r \in Requests :
    /\ Len(steps[r]) = 7
    /\ Last(r).step = "store_quiz" /\ Last(r).result = "error"
    /\ SummariesOf(r) # {}

====
